---------------------------- MODULE Spec2Model ----------------------------
(***************************************************************************)
(* PPO self-play training (examples/ppo-selfplay.py): the opponent pool    *)
(* (SelfPlayAssistant), the trajectory assembly helpers (split_obs,        *)
(* merge_actions, insert_at_indices), and the orchestrator's rollout /     *)
(* update loop.                                                            *)
(*                                                                         *)
(* Python lists and tensors are functions on 0..n-1 (the code's indices);  *)
(* the two deques of the pool are sequences (deque index k is k+1 here).   *)
(***************************************************************************)
EXTENDS Integers, Sequences, FiniteSets, TLC

VARIABLES
    pc,                \* position of the script: warmup, segment, rollout, eval, update, shutdown, done, crashed
    args,              \* the parsed configuration: num_steps, total_timesteps
    save_checkpoints,  \* SelfPlayAssistant.save_checkpoints (disk mode)
    checkpoints,       \* SelfPlayAssistant.checkpoints  (deque, maxlen = window)
    save_steps,        \* SelfPlayAssistant.save_steps   (deque, maxlen = window)
    files,             \* checkpoint files on disk: path -> serialized agent parameters
    agent,             \* parameters of the learning agent (a version number, bumped by every PPO update)
    opponent,          \* the fielded opponent (parameters), or NoAgent
    global_step,       \* learning-agent decisions so far
    steps,             \* per-environment write cursor
    step,              \* steps.max()
    train_ids,         \* train_ids[i]: the learning agent acts next in environment i
    reward,            \* reward batch returned by the last envs.step
    done,              \* done batch returned by the last envs.step
    rewards,           \* rewards buffer [num_steps, num_envs]
    dones,             \* dones buffer   [num_steps, num_envs]
    values,            \* values buffer  [num_steps, num_envs]
    obs,               \* obs buffer      [num_steps, num_envs]
    masks,             \* masks buffer    [num_steps, num_envs]
    actions,           \* actions buffer  [num_steps, num_envs]
    logprobs,          \* logprobs buffer [num_steps, num_envs]
    advantages,        \* advantages of the last GAE pass [num_steps, num_envs]
    b_advantages,      \* flattened advantages of the last update
    b_returns,         \* flattened returns of the last update
    acted,             \* history: number of (environment, sub-step) pairs in which the learning agent acted
    added,             \* history: every add_checkpoint call so far, as [step, params]
    call,              \* arguments of a pending helper call (helper specifications)
    ret                \* its result

poolVars == <<save_checkpoints, checkpoints, save_steps, files>>
envVars == <<train_ids, reward, done>>
bufVars == <<rewards, dones, values, obs, masks, actions, logprobs>>
batchVars == <<advantages, b_advantages, b_returns>>
helperVars == <<call, ret>>
vars == <<pc, args, poolVars, agent, opponent, global_step, steps, step, envVars, bufVars,
          batchVars, acted, added, helperVars>>

----------------------------------------------------------------------------
(* Bounds of the model and program constants *)

NumEnvs == 2
NumSteps == 2
TotalTimesteps == 3
Window == 2
CheckpointFreq == 2
ReplaceFreq == 3
EvalFreq == 3

NoAgent == "none"
\* no helper call pending / no result yet
Idle == [fn |-> "idle"]

\* what one environment returns from a step: the episode runs on (no reward yet),
\* or it ends and the learning player's reward arrives with the done flag
Outcomes == { [reward |-> 0, done |-> 0],
              [reward |-> 1, done |-> 1] }

\* fixed point: Unit stands for 1.0 in values, advantages and returns
Unit == 1000
\* --gamma 0.9 and --gae-lambda 0.95, in units of 1/Unit
Gamma == 900
GaeLambda == 950

----------------------------------------------------------------------------
(* Lists and tensors *)

Idx(n) == 0 .. (n - 1)
len(f) == Cardinality(DOMAIN f)

RECURSIVE SumTo(_, _)
SumTo(f, n) == IF n = 0 THEN 0 ELSE SumTo(f, n - 1) + f[n - 1]
\* sum(t) / torch.sum(t) of an integer tensor
sum(f) == SumTo(f, len(f))

\* train_ids as the int tensor of line 351/430
int(b) == [i \in DOMAIN b |-> IF b[i] THEN 1 ELSE 0]

RECURSIVE MaxTo(_, _)
MaxTo(f, n) == IF n = 1 THEN f[0] ELSE LET m == MaxTo(f, n - 1) IN IF f[n - 1] > m THEN f[n - 1] ELSE m
\* steps.max()
\* a slip: the smallest entry, so that a segment waits for every environment
RECURSIVE MinTo(_, _)
MinTo(f, n) == IF n = 1 THEN f[0] ELSE LET m == MinTo(f, n - 1) IN IF f[n - 1] < m THEN f[n - 1] ELSE m

min(f) == MinTo(f, len(f))

max(f) == MaxTo(f, len(f))

\* a row index as the tensor library resolves it: a negative index counts from the end
Row(r, buffer) == IF r < 0 THEN r + len(buffer) ELSE r

----------------------------------------------------------------------------
(* insert_at_indices (lines 107-116) *)

RECURSIVE InsertLoop(_, _, _, _, _, _)
InsertLoop(buffer, cursors, indices, vals, i, j) ==
    IF i = len(indices) THEN [buffer |-> buffer, raised |-> FALSE]
    ELSE IF indices[i]
         THEN IF j \in DOMAIN vals /\ Row(cursors[i], buffer) \in DOMAIN buffer
              THEN InsertLoop([buffer EXCEPT ![Row(cursors[i], buffer)][i] = vals[j]],
                              cursors, indices, vals, i + 1, j + 1)
              ELSE [buffer |-> buffer, raised |-> TRUE]     \* IndexError
         ELSE InsertLoop(buffer, cursors, indices, vals, i + 1, j)

\* a slip of the index: the row is taken from the cursor of the consumed value j
RECURSIVE InsertLoopSlip(_, _, _, _, _, _)
InsertLoopSlip(buffer, cursors, indices, vals, i, j) ==
    IF i = len(indices) THEN [buffer |-> buffer, raised |-> FALSE]
    ELSE IF indices[i]
         THEN IF j \in DOMAIN vals /\ Row(cursors[j], buffer) \in DOMAIN buffer
              THEN InsertLoopSlip([buffer EXCEPT ![Row(cursors[j], buffer)][i] = vals[j]],
                                  cursors, indices, vals, i + 1, j + 1)
              ELSE [buffer |-> buffer, raised |-> TRUE]
         ELSE InsertLoopSlip(buffer, cursors, indices, vals, i + 1, j)

insert_cursor_slip(buffer, cursors, indices, vals) ==
    IF len(vals) > 0
    THEN InsertLoopSlip(buffer, cursors, indices, vals, 0, 0)
    ELSE [buffer |-> buffer, raised |-> FALSE]

insert_at_indices(buffer, cursors, indices, vals) ==
    IF len(vals) > 0
    THEN InsertLoop(buffer, cursors, indices, vals, 0, 0)
    ELSE [buffer |-> buffer, raised |-> FALSE]

----------------------------------------------------------------------------
(* split_obs and merge_actions (lines 83-104) *)

Trues(filter) == {i \in DOMAIN filter : filter[i]}
Not(filter) == [i \in DOMAIN filter |-> ~filter[i]]

\* x[filter]: the rows of x whose filter entry is true, in order
select(x, filter) ==
    [k \in Idx(Cardinality(Trues(filter))) |->
        x[CHOOSE i \in Trues(filter) : Cardinality({m \in Trues(filter) : m < i}) = k]]

split_obs(next_obs, mask, filter) ==
    [obs |-> select(next_obs, filter), opp_obs |-> select(next_obs, Not(filter)),
     mask |-> select(mask, filter), opp_mask |-> select(mask, Not(filter))]

RECURSIVE MergeLoop(_, _, _, _, _, _)
MergeLoop(results, ids, action, opp_actions, i, j) ==
    IF i + j = len(ids) THEN [results |-> results, raised |-> FALSE]
    ELSE IF ids[i + j]
         THEN IF i \in DOMAIN action /\ (i + j) \in DOMAIN results
              THEN MergeLoop([results EXCEPT ![i + j] = action[i]], ids, action, opp_actions, i + 1, j)
              ELSE [results |-> results, raised |-> TRUE]     \* IndexError
         ELSE IF j \in DOMAIN opp_actions /\ (i + j) \in DOMAIN results
              THEN MergeLoop([results EXCEPT ![i + j] = opp_actions[j]], ids, action, opp_actions, i, j + 1)
              ELSE [results |-> results, raised |-> TRUE]     \* IndexError

\* a slip: the two groups are concatenated instead of interleaved
merge_concat(ids, action, opp_actions) ==
    [results |-> [k \in Idx(len(action) + len(opp_actions)) |->
                     IF k < len(action) THEN action[k] ELSE opp_actions[k - len(action)]],
     raised |-> FALSE]

merge_actions(ids, action, opp_actions) ==
    MergeLoop([k \in Idx(len(action) + len(opp_actions)) |-> 0], ids, action, opp_actions, 0, 0)

----------------------------------------------------------------------------
(* Generalised advantage estimation (lines 451-462) and flattening (469-488) *)

\* one pass of the loop body at row t, for every environment at once
nextnonterminal(dns, t) == [i \in DOMAIN dns[t] |-> 1 - dns[t + 1][i]]
nextvalues(vals, stps, t) ==
    [i \in DOMAIN vals[t] |-> vals[t + 1][i] * (IF stps[i] > t THEN 1 ELSE 0)]
delta(rews, dns, vals, stps, t) ==
    [i \in DOMAIN vals[t] |->
        rews[t][i] * Unit
        + (Gamma * nextvalues(vals, stps, t)[i] * nextnonterminal(dns, t)[i]) \div Unit
        - vals[t][i]]

\* for t in reversed(range(num_steps - 2)), from row t down to row 0
RECURSIVE GaeLoop(_, _, _, _, _, _, _)
GaeLoop(adv, lastgaelam, rews, dns, vals, stps, t) ==
    IF t < 0 THEN adv
    ELSE LET row == [i \in DOMAIN vals[t] |->
                        delta(rews, dns, vals, stps, t)[i]
                        + (((Gamma * GaeLambda) \div Unit) * nextnonterminal(dns, t)[i]
                           * lastgaelam[i]) \div Unit]
         IN  GaeLoop([adv EXCEPT ![t] = row], row, rews, dns, vals, stps, t - 1)

\* a slip: the pass starts one row later, at row num_steps - 2
gae_from_row_before_last(rews, dns, vals, stps) ==
    GaeLoop([t \in DOMAIN rews |-> [i \in DOMAIN rews[t] |-> 0]],
            [i \in DOMAIN stps |-> 0], rews, dns, vals, stps, len(rews) - 2)

gae(rews, dns, vals, stps) ==
    GaeLoop([t \in DOMAIN rews |-> [i \in DOMAIN rews[t] |-> 0]],
            [i \in DOMAIN stps |-> 0], rews, dns, vals, stps, len(rews) - 3)

\* returns = advantages + values
plus(a, b) == [t \in DOMAIN a |-> [i \in DOMAIN a[t] |-> a[t][i] + b[t][i]]]

\* lines 479-488 for one buffer: b[j:j+steps[i]] = buffer[:steps[i], i]
RECURSIVE FlattenLoop(_, _, _, _, _)
FlattenLoop(b, buffer, stps, i, j) ==
    IF i = len(stps) THEN b
    ELSE LET j1 == j + (IF i = 0 THEN 0 ELSE stps[i - 1])
         IN  FlattenLoop([k \in DOMAIN b |->
                             IF j1 <= k /\ k < j1 + stps[i] THEN buffer[k - j1][i] ELSE b[k]],
                         buffer, stps, i + 1, j1)

\* a slip: the offset of block i is steps[i-1], not the running total
RECURSIVE FlattenLoopNoTotal(_, _, _, _)
FlattenLoopNoTotal(b, buffer, stps, i) ==
    IF i = len(stps) THEN b
    ELSE LET j1 == IF i = 0 THEN 0 ELSE stps[i - 1]
         IN  FlattenLoopNoTotal([k \in DOMAIN b |->
                                    IF j1 <= k /\ k < j1 + stps[i] THEN buffer[k - j1][i] ELSE b[k]],
                                buffer, stps, i + 1)

flatten_no_total(buffer, stps) ==
    FlattenLoopNoTotal([k \in Idx(sum(stps)) |-> 0], buffer, stps, 0)

flatten(buffer, stps) ==
    FlattenLoop([k \in Idx(sum(stps)) |-> 0], buffer, stps, 0, 0)

----------------------------------------------------------------------------
(* SelfPlayAssistant (lines 21-81) *)

\* a slip: a plain list instead of a bounded deque
ListAppend(d, x, maxlen) == Append(d, x)

\* deque(maxlen).append
DequeAppend(d, x, maxlen) ==
    IF maxlen = 0 THEN d
    ELSE IF Len(d) = maxlen THEN Append(Tail(d), x)
    ELSE Append(d, x)

\* a step as the caller passes it: a Python int, or a 0-dim tensor
PyInt(n) == [type |-> "int", v |-> n]
Tensor(n) == [type |-> "Tensor", v |-> n]
isinstance(s, t) == s.type = t
\* step.item()
item(s) == PyInt(s.v)

\* os.path.join(checkpoint_dir, f"checkpoint_{steps}.pt")
checkpoint_name(s) == [path |-> s.v]

update_pool(pool, agnt, s) ==
    IF pool.save_checkpoints
    THEN [pool EXCEPT !.files = (checkpoint_name(s) :> agnt) @@ pool.files,
                      !.checkpoints = DequeAppend(pool.checkpoints, checkpoint_name(s), Window),
                      !.save_steps = DequeAppend(pool.save_steps, s, Window)]
    ELSE [pool EXCEPT !.checkpoints = DequeAppend(pool.checkpoints, agnt, Window),
                      !.save_steps = DequeAppend(pool.save_steps, s, Window)]

\* A network object in the pool or on the field is written as the parameters
\* it holds: a copy is never trained, so it holds them for good. TheAgent
\* stands for the one object that is trained in place, the learning agent
\* itself; parameters(net, agnt) are the parameters a network object holds
\* when the learning agent holds agnt.
TheAgent == -1
parameters(net, agnt) == IF net = TheAgent THEN agnt ELSE net

\* a slip: the agent itself is pooled in memory mode, without the copy of lines 79-80
add_checkpoint_shared(pool, agnt, s) ==
    LET s1 == IF isinstance(s, "Tensor") THEN item(s) ELSE s
    IN  IF pool.save_checkpoints
        THEN update_pool(pool, agnt, s1)
        ELSE update_pool(pool, TheAgent, s1)

\* a slip: the snapshot is taken but never handed to update_pool
add_checkpoint_unpooled(pool, agnt, s) == pool

\* in memory mode agent_copy is a fresh network loaded with agent's state_dict:
\* the same parameters, an object of its own
add_checkpoint(pool, agnt, s) ==
    LET s1 == IF isinstance(s, "Tensor") THEN item(s) ELSE s
    IN  IF pool.save_checkpoints
        THEN update_pool(pool, agnt, s1)
        ELSE LET agent_copy == agnt IN update_pool(pool, agent_copy, s1)

\* a slip: the upper end of the draw is len, not len-1
SampleIdsPastEnd(pool) == 0 .. Len(pool.checkpoints)

\* the ids sample_opponent can draw: len-1 (rnd.random() < self_play_prob), or
\* rnd.randint(0, len-1)
SampleIds(pool) == {Len(pool.checkpoints) - 1} \cup (0 .. (Len(pool.checkpoints) - 1))

\* sample_opponent with checkpoint_id drawn: the save step it prints (line 64),
\* and the agent returned or the error raised
sample_opponent(pool, checkpoint_id) ==
    IF (checkpoint_id + 1) \notin DOMAIN pool.save_steps
    THEN [raised |-> TRUE, agent |-> NoAgent, printed |-> NoAgent]   \* IndexError / ValueError
    ELSE IF pool.save_checkpoints
         THEN [raised |-> TRUE, agent |-> NoAgent,                   \* AttributeError: deque has no get
               printed |-> pool.save_steps[checkpoint_id + 1]]
         ELSE [raised |-> FALSE, agent |-> pool.checkpoints[checkpoint_id + 1],
               printed |-> pool.save_steps[checkpoint_id + 1]]

Pool == [save_checkpoints |-> save_checkpoints, checkpoints |-> checkpoints,
         save_steps |-> save_steps, files |-> files]

----------------------------------------------------------------------------
(* The orchestrator (lines 270-573) *)

Zeros(rows, cols) == [t \in Idx(rows) |-> [i \in Idx(cols) |-> 0]]

\* no helper call is pending
HelpersIdle == call = Idle /\ ret = Idle

\* the value head of the network with parameters agnt on the observation of
\* environment i, in units of 1/Unit: a function of the parameters and the observation
value_of(agnt, i) == 100 * (agnt + 1) + 10 * (i + 1)
\* likewise the action it picks and the log-probability of that action
action_of(agnt, i) == 10 * (agnt + 1) + (i + 1)
logprob_of(agnt, i) == 0 - action_of(agnt, i)
\* the observation and the action mask environment i presents
obs_of(i) == i + 1
mask_of(i) == i + 1

\* a slip: every cursor advances on every sub-step (the usual PPO loop)
advance_cursors_all(stps, ids) == [i \in DOMAIN stps |-> stps[i] + 1]

\* line 424: steps += train_ids
advance_cursors(stps, ids) == [i \in DOMAIN stps |-> stps[i] + int(ids)[i]]

\* a slip: every environment of the batch is counted (the usual PPO loop)
advance_every_env(gs, ids) == gs + len(ids)

\* lines 375-377: global_step counts the learning agent's decisions only
advance(gs, ids) == IF len(select(ids, ids)) > 0 THEN gs + sum(int(ids)) ELSE gs

\* a slip: the comparison of line 446, which also holds when nothing advanced
crossed_or_level(gs, freq, ids) == (gs % freq) <= sum(int(ids))

\* the edge-trigger test of lines 387 and 389
crossed(gs, freq, ids) == (gs % freq) < sum(int(ids))

\* the test of line 446, on the train_ids re-read at line 430
eval_due(gs, freq, ids) == (gs % freq) <= sum(int(ids))

\* the state of the script after SelfPlayAssistant.__init__ (line 324) and the
\* storage setup (lines 330-339), before line 326 runs
Fresh ==
    /\ checkpoints = << >>
    /\ save_steps = << >>
    /\ files = << >>
    /\ agent = 0
    /\ opponent = NoAgent
    /\ global_step = 0
    /\ steps = [i \in Idx(NumEnvs) |-> 0]
    /\ step = 0
    /\ train_ids = [i \in Idx(NumEnvs) |-> FALSE]
    /\ reward = [i \in Idx(NumEnvs) |-> 0]
    /\ done = [i \in Idx(NumEnvs) |-> 0]
    /\ rewards = Zeros(args.num_steps, NumEnvs)
    /\ dones = Zeros(args.num_steps, NumEnvs)
    /\ values = Zeros(args.num_steps, NumEnvs)
    /\ obs = Zeros(args.num_steps, NumEnvs)
    /\ masks = Zeros(args.num_steps, NumEnvs)
    /\ actions = Zeros(args.num_steps, NumEnvs)
    /\ logprobs = Zeros(args.num_steps, NumEnvs)
    /\ advantages = Zeros(args.num_steps, NumEnvs)
    /\ b_advantages = << >>
    /\ b_returns = << >>
    /\ acted = 0
    /\ added = << >>

Init ==
    /\ pc = "warmup"
    /\ args = [num_steps |-> NumSteps, total_timesteps |-> TotalTimesteps]
    /\ Fresh
    /\ save_checkpoints \in BOOLEAN
    /\ HelpersIdle

SetPool(p) ==
    /\ checkpoints' = p.checkpoints
    /\ save_steps' = p.save_steps
    /\ files' = p.files
    /\ UNCHANGED save_checkpoints

\* lines 326-355: seed the pool, field the first opponent, reset the environments
Warmup ==
    /\ pc = "warmup"
    /\ LET p1 == add_checkpoint(Pool, agent, PyInt(0)) IN
       /\ SetPool(p1)
       /\ added' = Append(added, [step |-> 0, params |-> agent])
       /\ \E id \in SampleIds(p1) :
            LET s == sample_opponent(p1, id) IN
            IF s.raised
            THEN /\ pc' = "crashed"
                 /\ UNCHANGED <<opponent, train_ids>>
            ELSE /\ opponent' = s.agent
                 /\ \E ids \in [Idx(NumEnvs) -> BOOLEAN] : train_ids' = ids
                 /\ pc' = "segment"
    /\ UNCHANGED <<args, agent, global_step, steps, step, reward, done, bufVars, batchVars,
                   acted, helperVars>>

\* line 356: the outer loop test, made between segments only
Segment ==
    /\ pc = "segment"
    /\ pc' = IF global_step < args.total_timesteps THEN "rollout" ELSE "shutdown"
    /\ UNCHANGED <<args, poolVars, agent, opponent, global_step, steps, step, envVars, bufVars,
                   batchVars, acted, added, helperVars>>

\* one pass of the inner while loop, lines 364-447 (the evaluate call itself is Evaluate)
RolloutStep ==
    /\ pc = "rollout"
    /\ LET gs == advance(global_step, train_ids)
           ckpt == crossed(gs, CheckpointFreq, train_ids)
           p1 == IF ckpt THEN add_checkpoint(Pool, agent, PyInt(gs)) ELSE Pool
           repl == crossed(gs, ReplaceFreq, train_ids)
           obs_ == select([i \in Idx(NumEnvs) |-> i], train_ids)
           value == [k \in DOMAIN obs_ |-> value_of(agent, obs_[k])]
           v1 == IF len(obs_) > 0
                 THEN insert_at_indices(values, steps, train_ids, value).buffer
                 ELSE values
           \* lines 379 and 393-398: the same write for obs, actions, logprobs, masks
           learner(x) == IF len(obs_) > 0
                         THEN insert_at_indices(x.buffer, steps, train_ids,
                                                [k \in DOMAIN obs_ |-> x.of[obs_[k]]]).buffer
                         ELSE x.buffer
           o1 == learner([buffer |-> obs, of |-> [i \in Idx(NumEnvs) |-> obs_of(i)]])
           m1 == learner([buffer |-> masks, of |-> [i \in Idx(NumEnvs) |-> mask_of(i)]])
           a1 == learner([buffer |-> actions, of |-> [i \in Idx(NumEnvs) |-> action_of(agent, i)]])
           l1 == learner([buffer |-> logprobs, of |-> [i \in Idx(NumEnvs) |-> logprob_of(agent, i)]])
       IN
       /\ global_step' = gs
       /\ acted' = acted + Cardinality({i \in Idx(NumEnvs) : train_ids[i]})
       /\ SetPool(p1)
       /\ added' = IF ckpt THEN Append(added, [step |-> gs, params |-> agent]) ELSE added
       /\ \E id \in (IF repl THEN SampleIds(p1) ELSE {0}),
             out \in [Idx(NumEnvs) -> Outcomes],
             ids \in [Idx(NumEnvs) -> BOOLEAN] :
            LET s == sample_opponent(p1, id)
                rew == [i \in Idx(NumEnvs) |-> out[i].reward]
                dn == [i \in Idx(NumEnvs) |-> out[i].done]
                back == [i \in Idx(NumEnvs) |-> dn[i] # 0 /\ ~train_ids[i]]
                before == [i \in Idx(NumEnvs) |-> steps[i] - 1]
                r1 == insert_at_indices(rewards, steps, train_ids, rew).buffer
                d1 == insert_at_indices(dones, steps, train_ids, dn).buffer
                r2 == insert_at_indices(r1, before, back, rew).buffer
                d2 == insert_at_indices(d1, before, back, dn).buffer
                steps1 == advance_cursors(steps, train_ids)
            IN
            IF repl /\ s.raised
            THEN /\ pc' = "crashed"
                 /\ UNCHANGED <<opponent, envVars, bufVars, steps, step>>
            ELSE /\ opponent' = IF repl THEN s.agent ELSE opponent
                 /\ reward' = rew
                 /\ done' = dn
                 /\ rewards' = r2
                 /\ dones' = d2
                 /\ values' = v1
                 /\ obs' = o1
                 /\ masks' = m1
                 /\ actions' = a1
                 /\ logprobs' = l1
                 /\ steps' = steps1
                 /\ step' = max(steps1)
                 /\ train_ids' = ids
                 /\ pc' = IF eval_due(gs, EvalFreq, ids) THEN "eval"
                          ELSE IF max(steps1) < args.num_steps THEN "rollout" ELSE "update"
    /\ UNCHANGED <<args, agent, batchVars, helperVars>>

\* a slip of the indentation: after the evaluation the script falls out of the
\* inner loop, back to the test of the outer one
EvaluateLeavesSegment ==
    /\ pc = "eval"
    /\ pc' = "segment"
    /\ UNCHANGED <<args, poolVars, agent, opponent, global_step, steps, step, envVars, bufVars,
                   batchVars, acted, added, helperVars>>

\* a slip: the evaluation episodes are played on the training environments, which
\* come back with another pending turn
EvaluateOnTrainingEnvs ==
    /\ pc = "eval"
    /\ pc' = IF step < args.num_steps THEN "rollout" ELSE "update"
    /\ \E ids \in [Idx(NumEnvs) -> BOOLEAN] : train_ids' = ids
    /\ UNCHANGED <<args, poolVars, agent, opponent, global_step, steps, step, reward, done,
                   bufVars, batchVars, acted, added, helperVars>>

\* evaluate(args, agent, global_step, ...), lines 119-184: envs, next_obs,
\* next_masks, rewards, opponent are names local to the function; it builds
\* environments of its own, queries the agent under no_grad and writes eval/*
\* scalars to the metrics sink
Evaluate ==
    /\ pc = "eval"
    /\ pc' = IF step < args.num_steps THEN "rollout" ELSE "update"
    /\ UNCHANGED <<args, poolVars, agent, opponent, global_step, steps, step, envVars, bufVars,
                   batchVars, acted, added, helperVars>>

\* lines 449-566: GAE, flattening, the PPO epochs, cursor reset
Update ==
    /\ pc = "update"
    /\ LET adv == gae(rewards, dones, values, steps)
           returns == plus(adv, values)
       IN  /\ advantages' = adv
           /\ b_advantages' = flatten(adv, steps)
           /\ b_returns' = flatten(returns, steps)
    /\ agent' = agent + 1
    /\ step' = 0
    /\ steps' = [i \in Idx(NumEnvs) |-> 0]
    /\ pc' = "segment"
    /\ UNCHANGED <<args, poolVars, opponent, global_step, envVars, bufVars,
                   acted, added, helperVars>>

\* lines 568-573
Shutdown ==
    /\ pc = "shutdown"
    /\ pc' = "done"
    /\ UNCHANGED <<args, poolVars, agent, opponent, global_step, steps, step, envVars, bufVars,
                   batchVars, acted, added, helperVars>>

Next == Warmup \/ Segment \/ RolloutStep \/ Evaluate \/ Update \/ Shutdown

Spec == Init /\ [][Next]_vars

\* the script is one thread that runs until it returns or raises: a step that
\* can be taken is taken
SpecLive == Init /\ [][Next]_vars /\ WF_vars(Next)

\* the same script with one more buffer row and one more timestep: the GAE pass
\* (rows 0 .. num_steps-3) has a row to visit, and a second segment runs on
\* the buffers the first one left behind
LongInit ==
    /\ pc = "warmup"
    /\ args = [num_steps |-> NumSteps + 1, total_timesteps |-> TotalTimesteps + 1]
    /\ Fresh
    /\ save_checkpoints \in BOOLEAN
    /\ HelpersIdle

SpecLong == LongInit /\ [][Next]_vars

\* everything the orchestrator owns, for the specifications that drive one
\* component on its own
mainVars == <<agent, opponent, global_step, steps, step, envVars, bufVars, batchVars,
              acted, added>>

----------------------------------------------------------------------------
(* The SelfPlayAssistant on its own: any caller, any order of calls *)

MaxAdds == 3
MaxStep == 1
MaxTrain == 2

\* the step argument: a plain number or a 0-dim tensor
StepArgs == {PyInt(n) : n \in 0 .. MaxStep} \cup {Tensor(n) : n \in 0 .. MaxStep}

PoolInit ==
    /\ pc = "pool"
    /\ args = [num_steps |-> NumSteps, total_timesteps |-> TotalTimesteps]
    /\ Fresh
    /\ save_checkpoints \in BOOLEAN
    /\ HelpersIdle

\* training_manager.add_checkpoint(args, agent, step)
PoolAdd ==
    /\ pc = "pool"
    /\ Len(added) < MaxAdds
    /\ \E s \in StepArgs :
         /\ SetPool(add_checkpoint(Pool, agent, s))
         /\ added' = Append(added, [step |-> s.v, params |-> agent])
         /\ call' = [fn |-> "add_checkpoint", step |-> s]
         /\ ret' = [fn |-> "add_checkpoint"]
    /\ UNCHANGED <<pc, args, agent, opponent, global_step, steps, step, envVars, bufVars,
                   batchVars, acted>>

\* opponent = training_manager.sample_opponent()
PoolSample ==
    /\ pc = "pool"
    /\ \E id \in SampleIds(Pool) :
         LET s == sample_opponent(Pool, id) IN
         /\ call' = [fn |-> "sample_opponent", checkpoint_id |-> id]
         /\ ret' = [fn |-> "sample_opponent", raised |-> s.raised, agent |-> s.agent,
                     printed |-> s.printed]
         /\ opponent' = IF s.raised THEN opponent ELSE s.agent
    /\ UNCHANGED <<pc, args, poolVars, agent, global_step, steps, step, envVars, bufVars,
                   batchVars, acted, added>>

\* the caller trains the live agent between calls (optimizer.step, line 539)
PoolTrain ==
    /\ pc = "pool"
    /\ agent < MaxTrain
    /\ agent' = agent + 1
    /\ call' = Idle
    /\ ret' = Idle
    /\ UNCHANGED <<pc, args, poolVars, opponent, global_step, steps, step, envVars, bufVars,
                   batchVars, acted, added>>

PoolNext == PoolAdd \/ PoolSample \/ PoolTrain

SpecPool == PoolInit /\ [][PoolNext]_vars

----------------------------------------------------------------------------
(* The acting half of a rollout sub-step on its own (lines 371-403): split the *)
(* observations by who acts, query both networks, merge the actions back.      *)

MergeEnvs == 3
ObsSet == 1 .. 3
MaskSet == 0 .. 1

\* the action a network picks for one observation row: who picked it, and from
\* which observation and mask
policy(who, o, m) == [by |-> who, obs |-> o, mask |-> m]
LearningAgent == "agent"
Opponent == "opponent"

ActInit ==
    /\ pc = "act"
    /\ args = [num_steps |-> NumSteps, total_timesteps |-> TotalTimesteps]
    /\ Fresh
    /\ save_checkpoints = FALSE
    /\ call \in { [fn |-> "act", filter |-> f, next_obs |-> o, next_masks |-> m] :
                    f \in [Idx(MergeEnvs) -> BOOLEAN],
                    o \in [Idx(MergeEnvs) -> ObsSet],
                    m \in [Idx(MergeEnvs) -> MaskSet] }
    /\ ret = Idle

\* lines 371-400: action_ as stepped into the environments
Act ==
    /\ pc = "act"
    /\ ret = Idle
    /\ LET sp == split_obs(call.next_obs, call.next_masks, call.filter)
           action == [k \in DOMAIN sp.obs |-> policy(LearningAgent, sp.obs[k], sp.mask[k])]
           opp_action == [k \in DOMAIN sp.opp_obs |->
                             policy(Opponent, sp.opp_obs[k], sp.opp_mask[k])]
           merged == merge_actions(call.filter, action, opp_action)
       IN  ret' = IF len(sp.obs) > 0
                  THEN [fn |-> "act", raised |-> merged.raised, action_ |-> merged.results]
                  ELSE [fn |-> "act", raised |-> FALSE, action_ |-> opp_action]
    /\ UNCHANGED <<pc, args, poolVars, mainVars, call>>

ActNext == Act

SpecAct == ActInit /\ [][ActNext]_vars

----------------------------------------------------------------------------
(* insert_at_indices on its own *)

InsertEnvs == 3
InsertRows == 2

\* a buffer whose cells all differ, and values that differ from every cell
OldCell(t, i) == 10 * (t + 1) + i
NewValue(j) == 100 + j

InsertInit ==
    /\ pc = "insert"
    /\ args = [num_steps |-> NumSteps, total_timesteps |-> TotalTimesteps]
    /\ Fresh
    /\ save_checkpoints = FALSE
    /\ call \in { [fn |-> "insert_at_indices",
                   buffer |-> [t \in Idx(InsertRows) |-> [i \in Idx(InsertEnvs) |-> OldCell(t, i)]],
                   cursors |-> c, indices |-> f, vals |-> [j \in Idx(n) |-> NewValue(j)]] :
                    c \in [Idx(InsertEnvs) -> (-1) .. (InsertRows - 1)],
                    f \in [Idx(InsertEnvs) -> BOOLEAN],
                    n \in 0 .. InsertEnvs }
    /\ ret = Idle

Insert ==
    /\ pc = "insert"
    /\ ret = Idle
    /\ LET r == insert_at_indices(call.buffer, call.cursors, call.indices, call.vals)
       IN  ret' = [fn |-> "insert_at_indices", raised |-> r.raised, buffer |-> r.buffer]
    /\ UNCHANGED <<pc, args, poolVars, mainVars, call>>

InsertNext == Insert

SpecInsert == InsertInit /\ [][InsertNext]_vars

----------------------------------------------------------------------------
(* Batch flattening on its own *)

FlatEnvs == 3
FlatRows == 5

FlattenInit ==
    /\ pc = "flatten"
    /\ args = [num_steps |-> NumSteps, total_timesteps |-> TotalTimesteps]
    /\ Fresh
    /\ save_checkpoints = FALSE
    /\ call \in { [fn |-> "flatten",
                   buffer |-> [t \in Idx(FlatRows) |-> [i \in Idx(FlatEnvs) |-> OldCell(t, i)]],
                   steps |-> c] :
                    c \in [Idx(FlatEnvs) -> 0 .. FlatRows] }
    /\ ret = Idle

Flatten ==
    /\ pc = "flatten"
    /\ ret = Idle
    /\ ret' = [fn |-> "flatten", b |-> flatten(call.buffer, call.steps)]
    /\ UNCHANGED <<pc, args, poolVars, mainVars, call>>

FlattenNext == Flatten

SpecFlatten == FlattenInit /\ [][FlattenNext]_vars

----------------------------------------------------------------------------
(* Seeding of the assistant's generator (lines 36-39) and the draw of         *)
(* sample_opponent (lines 59-63): two assistants built from the same seed     *)
(* argument and driven by the same calls.                                     *)

MaxSeed == 2
MaxGlobal == 2
MaxCalls == 4

\* --sp-recent-prob 0.7, in units of 1/Unit
SelfPlayProb == 700

None == [type |-> "NoneType"]
\* the seed argument: None (the default), or an int
SeedArgs == {None} \cup {PyInt(n) : n \in 0 .. MaxSeed}
\* Python's `not seed`
falsy(sd) == sd.type = "NoneType" \/ (sd.type = "int" /\ sd.v = 0)

\* random.randint(0, 100000) on the process-wide generator: whatever its state yields
GlobalDraws == 1 .. MaxGlobal

\* random.Random(seed): the k-th number of the stream, in units of 1/Unit; a
\* function of the seed and the position only
Stream(seed, k) == ((seed + 1) * 389 + (k + 1) * 211 + seed * k * 97) % Unit

\* SelfPlayAssistant.__init__, with `drawn` what random.randint returns if asked
Assistant(sd, drawn) ==
    [seed |-> IF falsy(sd) THEN drawn ELSE sd.v, k |-> 0, save_steps |-> << >>, ids |-> << >>]

\* lines 59-63 on the assistant's own generator: the index, and the generator after
draw_checkpoint_id(a) ==
    LET n == Len(a.save_steps) IN
    IF Stream(a.seed, a.k) < SelfPlayProb
    THEN [checkpoint_id |-> n - 1, k |-> a.k + 1]
    ELSE [checkpoint_id |-> Stream(a.seed, a.k + 1) % n, k |-> a.k + 2]

assistant_add(a, st) == [a EXCEPT !.save_steps = DequeAppend(a.save_steps, st, Window)]

assistant_sample(a) ==
    LET d == draw_checkpoint_id(a)
    IN  [a EXCEPT !.k = d.k, !.ids = Append(a.ids, d.checkpoint_id)]

SeedInit ==
    /\ pc = "seed"
    /\ args = [num_steps |-> NumSteps, total_timesteps |-> TotalTimesteps]
    /\ Fresh
    /\ save_checkpoints = FALSE
    /\ call \in { [fn |-> "SelfPlayAssistant", seed |-> sd, calls |-> 0] : sd \in SeedArgs }
    /\ ret = Idle

\* both assistants are built with call.seed; the process-wide generator is in
\* whatever state it is in at each construction
SeedConstruct ==
    /\ pc = "seed"
    /\ ret = Idle
    /\ \E d1, d2 \in GlobalDraws :
         ret' = [fn |-> "pair", a |-> Assistant(call.seed, d1), b |-> Assistant(call.seed, d2)]
    /\ UNCHANGED <<pc, args, poolVars, mainVars, call>>

\* add_checkpoint on both
SeedAdd ==
    /\ pc = "seed"
    /\ ret.fn = "pair"
    /\ call.calls < MaxCalls
    /\ ret' = [ret EXCEPT !.a = assistant_add(ret.a, call.calls),
                           !.b = assistant_add(ret.b, call.calls)]
    /\ call' = [call EXCEPT !.calls = @ + 1]
    /\ UNCHANGED <<pc, args, poolVars, mainVars>>

\* sample_opponent on both
SeedSample ==
    /\ pc = "seed"
    /\ ret.fn = "pair"
    /\ call.calls < MaxCalls
    /\ Len(ret.a.save_steps) >= 1
    /\ ret' = [ret EXCEPT !.a = assistant_sample(ret.a), !.b = assistant_sample(ret.b)]
    /\ call' = [call EXCEPT !.calls = @ + 1]
    /\ UNCHANGED <<pc, args, poolVars, mainVars>>

SeedNext == SeedConstruct \/ SeedAdd \/ SeedSample

SpecSeed == SeedInit /\ [][SeedNext]_vars

----------------------------------------------------------------------------
(* The optimization phase on its own (lines 490-543), with no target-KL      *)
(* threshold (--target-kl default None): update_epochs passes over a shuffle  *)
(* of the n_transitions indices, one gradient step per minibatch.             *)

PpoSteps == 2
MaxMinibatches == 3
MaxEpochs == 2

\* parse_args, lines 264-265
batch_size(num_envs, num_steps) == num_envs * num_steps
minibatch_size(batch, num_minibatches) == batch \div num_minibatches

\* every order of the elements of S, as a sequence
RECURSIVE Orders(_)
Orders(S) == IF S = {} THEN {<< >>}
             ELSE UNION {{Append(q, x) : q \in Orders(S \ {x})} : x \in S}

\* np.random.shuffle(b_inds): any order of 0 .. n-1
Shuffles(n) == {[i \in Idx(n) |-> q[i + 1]] : q \in Orders(Idx(n))}

\* b_inds[start:end], as the set of its entries (a slice stops at the end of the array)
Slice(b, start, end) == {b[k] : k \in {q \in DOMAIN b : start <= q /\ q < end}}

\* a slip: the minibatch starts run over the whole buffer size (the usual PPO loop)
range_stop_batch(n_transitions, batch) == batch

\* line 494: for start in range(0, n_transitions, args.minibatch_size)
range_stop(n_transitions, batch) == n_transitions

PpoInit ==
    /\ pc = "optimize"
    /\ args = [num_steps |-> NumSteps, total_timesteps |-> TotalTimesteps]
    /\ Fresh
    /\ save_checkpoints = FALSE
    /\ call \in { [fn |-> "optimize",
                   n_transitions |-> sum(c),
                   batch_size |-> batch_size(NumEnvs, PpoSteps),
                   minibatch_size |-> minibatch_size(batch_size(NumEnvs, PpoSteps), nm),
                   update_epochs |-> e] :
                    c \in {d \in [Idx(NumEnvs) -> 0 .. PpoSteps] : max(d) = PpoSteps},
                    nm \in 1 .. MaxMinibatches,
                    e \in 1 .. MaxEpochs }
    /\ ret = Idle

\* lines 490-491: b_inds = np.arange(n_transitions); clipfracs = []
PpoStart ==
    /\ pc = "optimize"
    /\ ret = Idle
    /\ ret' = [fn |-> "optimize", at |-> "epoch", epoch |-> 0, start |-> 0,
               b_inds |-> [i \in Idx(call.n_transitions) |-> i],
               uses |-> [i \in Idx(call.n_transitions) |-> 0], grad_steps |-> 0]
    /\ UNCHANGED <<pc, args, poolVars, mainVars, call>>

\* lines 492-493: the next epoch, if any, shuffles the indices
PpoEpoch ==
    /\ pc = "optimize"
    /\ ret.fn = "optimize"
    /\ ret.at = "epoch"
    /\ IF ret.epoch < call.update_epochs
       THEN \E b \in Shuffles(call.n_transitions) :
               ret' = [ret EXCEPT !.at = "minibatch", !.start = 0, !.b_inds = b]
       ELSE ret' = [ret EXCEPT !.at = "done"]
    /\ UNCHANGED <<pc, args, poolVars, mainVars, call>>

\* lines 494-539: one minibatch, one optimizer.step(); lines 541-543 after the last
PpoMinibatch ==
    /\ pc = "optimize"
    /\ ret.fn = "optimize"
    /\ ret.at = "minibatch"
    /\ IF ret.start < range_stop(call.n_transitions, call.batch_size)
       THEN LET end == ret.start + call.minibatch_size
                mb_inds == Slice(ret.b_inds, ret.start, end)
            IN  ret' = [ret EXCEPT !.start = end,
                                   !.uses = [i \in DOMAIN @ |-> IF i \in mb_inds THEN @[i] + 1 ELSE @[i]],
                                   !.grad_steps = @ + 1]
       ELSE ret' = [ret EXCEPT !.at = "epoch", !.epoch = @ + 1]
    /\ UNCHANGED <<pc, args, poolVars, mainVars, call>>

PpoNext == PpoStart \/ PpoEpoch \/ PpoMinibatch

SpecPpo == PpoInit /\ [][PpoNext]_vars

----------------------------------------------------------------------------
(* make_env (pytag/utils/common.py, lines 33-50): the thunk it returns, as    *)
(* evaluate calls it (line 127). A Python list is a sequence here.            *)

MaxPlayers == 4
MaxFramestack == 2

EnvIds == {"TAG/Diamant-v0", "TAG/Stratego-v0", "TAG/SushiGo-v0"}
\* the baselines evaluate plays against (line 446), the choices of --opponent (line 251)
OpponentNames == {"random", "osla", "mcts"}

\* `"Stratego" in env_id`, `"Sushi" in env_id`
contains(env_id, game) ==
    \/ game = "Stratego" /\ env_id = "TAG/Stratego-v0"
    \/ game = "Sushi" /\ env_id = "TAG/SushiGo-v0"

\* a slip: the list starts with one "python" per player (as make_ma_env builds it)
agent_ids_all_python(opponent_, n_players) ==
    [k \in 1 .. n_players |-> "python"]
        \o (IF n_players > 1 THEN [k \in 1 .. (n_players - 1) |-> opponent_] ELSE << >>)

\* lines 36-38
agent_ids(opponent_, n_players) ==
    <<"python">> \o (IF n_players > 1 THEN [k \in 1 .. (n_players - 1) |-> opponent_] ELSE << >>)

\* np.random.shuffle(agent_ids): the orders it can leave the list in
shuffle(l) == {[k \in 1 .. Len(l) |-> l[b[k - 1] + 1]] : b \in Shuffles(Len(l))}

\* lines 43-48: the wrappers put around the environment, innermost first
wrappers(env_id, framestack) ==
    (IF contains(env_id, "Stratego") THEN <<"StrategoWrapper">> ELSE << >>)
        \o (IF contains(env_id, "Sushi") THEN <<"SushiGoWrapper">> ELSE << >>)
        \o (IF framestack > 1 THEN <<"FrameStack">> ELSE << >>)

EnvInit ==
    /\ pc = "make_env"
    /\ args = [num_steps |-> NumSteps, total_timesteps |-> TotalTimesteps]
    /\ Fresh
    /\ save_checkpoints = FALSE
    /\ call \in { [fn |-> "make_env", env_id |-> e, opponent |-> o, n_players |-> n,
                   framestack |-> f, randomise_order |-> r] :
                    e \in EnvIds, o \in OpponentNames, n \in 1 .. MaxPlayers,
                    f \in 1 .. MaxFramestack, r \in BOOLEAN }
    /\ ret = Idle

\* make_env(...)(): the thunk runs
MakeEnv ==
    /\ pc = "make_env"
    /\ ret = Idle
    /\ LET ids == agent_ids(call.opponent, call.n_players) IN
       \E l \in (IF call.randomise_order THEN shuffle(ids) ELSE {ids}) :
          ret' = [fn |-> "make_env", agent_ids |-> l,
                  wrappers |-> wrappers(call.env_id, call.framestack)]
    /\ UNCHANGED <<pc, args, poolVars, mainVars, call>>

EnvNext == MakeEnv

SpecEnv == EnvInit /\ [][EnvNext]_vars

----------------------------------------------------------------------------
(* The advantage pass on its own: lines 451-488 on the buffers of a segment end *)

GaeEnvs == 2
GaeRows == 3

\* the value stored at row t of environment i, in units of 1/Unit
StoredValue(t, i) == 100 * (t + 1) + 10 * (i + 1)

\* a segment has ended: the largest cursor is num_steps (lines 364, 424-425);
\* environment i saw its episode end at row ends[i] (no end for ends[i] = num_steps)
GaeInit ==
    /\ pc = "gae"
    /\ args = [num_steps |-> NumSteps, total_timesteps |-> TotalTimesteps]
    /\ Fresh
    /\ save_checkpoints = FALSE
    /\ call \in { [fn |-> "gae",
                   rewards |-> [t \in Idx(GaeRows) |-> [i \in Idx(GaeEnvs) |->
                                                          IF ends[i] = t THEN 1 ELSE 0]],
                   dones |-> [t \in Idx(GaeRows) |-> [i \in Idx(GaeEnvs) |->
                                                        IF ends[i] = t THEN 1 ELSE 0]],
                   values |-> [t \in Idx(GaeRows) |-> [i \in Idx(GaeEnvs) |-> StoredValue(t, i)]],
                   steps |-> c] :
                    c \in {x \in [Idx(GaeEnvs) -> 0 .. GaeRows] : max(x) = GaeRows},
                    ends \in [Idx(GaeEnvs) -> 0 .. GaeRows] }
    /\ ret = Idle

\* lines 451-488: advantages, returns, and their flattened copies
Gae ==
    /\ pc = "gae"
    /\ ret = Idle
    /\ LET adv == gae(call.rewards, call.dones, call.values, call.steps)
           returns == plus(adv, call.values)
       IN  ret' = [fn |-> "gae", advantages |-> adv, returns |-> returns,
                   b_advantages |-> flatten(adv, call.steps),
                   b_returns |-> flatten(returns, call.steps)]
    /\ UNCHANGED <<pc, args, poolVars, mainVars, call>>

GaeNext == Gae

SpecGae == GaeInit /\ [][GaeNext]_vars

----------------------------------------------------------------------------
(* Acting and self-play admin of a sub-step on their own: lines 371-403 *)

MaxAdminStep == 6

\* a slip of the order: the opponent is drawn before the checkpoint is added
self_play_admin_sample_first(pool, agnt, opp, gs, ids) ==
    LET ckpt == crossed(gs, CheckpointFreq, ids)
        repl == crossed(gs, ReplaceFreq, ids)
        p1 == IF ckpt THEN add_checkpoint(pool, agnt, PyInt(gs)) ELSE pool
    IN  IF repl
        THEN { [pool |-> p1, added |-> ckpt, sampled |-> TRUE,
                raised |-> sample_opponent(pool, id).raised,
                opponent |-> IF sample_opponent(pool, id).raised THEN opp
                             ELSE sample_opponent(pool, id).agent,
                checkpoint_id |-> id] : id \in SampleIds(pool) }
        ELSE { [pool |-> p1, added |-> ckpt, sampled |-> FALSE, raised |-> FALSE,
                opponent |-> opp, checkpoint_id |-> 0] }

\* lines 386-390 at global_step gs: every outcome of the two tests, one per id
\* sample_opponent can draw; it draws over the pool add_checkpoint left
self_play_admin(pool, agnt, opp, gs, ids) ==
    LET ckpt == crossed(gs, CheckpointFreq, ids)
        repl == crossed(gs, ReplaceFreq, ids)
        p1 == IF ckpt THEN add_checkpoint(pool, agnt, PyInt(gs)) ELSE pool
    IN  IF repl
        THEN { [pool |-> p1, added |-> ckpt, sampled |-> TRUE,
                raised |-> sample_opponent(p1, id).raised,
                opponent |-> IF sample_opponent(p1, id).raised THEN opp
                             ELSE sample_opponent(p1, id).agent,
                checkpoint_id |-> id] : id \in SampleIds(p1) }
        ELSE { [pool |-> p1, added |-> ckpt, sampled |-> FALSE, raised |-> FALSE,
                opponent |-> opp, checkpoint_id |-> 0] }

AdminInit ==
    /\ pc = "admin_warmup"
    /\ args = [num_steps |-> NumSteps, total_timesteps |-> TotalTimesteps]
    /\ Fresh
    /\ save_checkpoints \in BOOLEAN
    /\ HelpersIdle

\* lines 326-351: seed the pool, field the first opponent, reset the environments
AdminWarmup ==
    /\ pc = "admin_warmup"
    /\ LET p1 == add_checkpoint(Pool, agent, PyInt(0)) IN
       /\ SetPool(p1)
       /\ added' = Append(added, [step |-> 0, params |-> agent])
       /\ \E id \in SampleIds(p1) :
            LET s == sample_opponent(p1, id) IN
            IF s.raised
            THEN /\ pc' = "crashed"
                 /\ UNCHANGED <<opponent, train_ids>>
            ELSE /\ opponent' = s.agent
                 /\ \E ids \in [Idx(NumEnvs) -> BOOLEAN] : train_ids' = ids
                 /\ pc' = "admin"
    /\ UNCHANGED <<args, agent, global_step, steps, step, reward, done, bufVars, batchVars,
                   acted, helperVars>>

\* lines 371-403 of one sub-step: both networks act, the pool is served, the
\* actions are merged and stepped; lines 428-430: the environments report who
\* acts next
AdminStep ==
    /\ pc = "admin"
    /\ global_step < MaxAdminStep
    /\ LET gs == advance(global_step, train_ids)
           sp == split_obs([i \in Idx(NumEnvs) |-> obs_of(i)],
                           [i \in Idx(NumEnvs) |-> mask_of(i)], train_ids)
           action == [k \in DOMAIN sp.obs |-> policy(agent, sp.obs[k], sp.mask[k])]
           opp_action == [k \in DOMAIN sp.opp_obs |->
                             policy(opponent, sp.opp_obs[k], sp.opp_mask[k])]
           merged == merge_actions(train_ids, action, opp_action)
           action_ == IF len(sp.obs) > 0 THEN merged.results ELSE opp_action
       IN
       /\ global_step' = gs
       /\ call' = [fn |-> "substep", agent |-> agent, opponent |-> opponent,
                   train_ids |-> train_ids]
       /\ \E a \in self_play_admin(Pool, agent, opponent, gs, train_ids) :
            /\ SetPool(a.pool)
            /\ added' = IF a.added THEN Append(added, [step |-> gs, params |-> agent])
                        ELSE added
            /\ opponent' = a.opponent
            /\ ret' = [fn |-> "substep", raised |-> a.raised, added |-> a.added,
                       sampled |-> a.sampled, checkpoint_id |-> a.checkpoint_id,
                       action_ |-> action_]
            /\ IF a.raised
               THEN /\ pc' = "crashed"
                    /\ UNCHANGED train_ids
               ELSE /\ pc' = "admin"
                    /\ \E ids \in [Idx(NumEnvs) -> BOOLEAN] : train_ids' = ids
    /\ UNCHANGED <<args, agent, steps, step, reward, done, bufVars, batchVars, acted>>

\* the PPO update between two segments trains the live agent (optimizer.step, line 539)
AdminTrain ==
    /\ pc = "admin"
    /\ agent < MaxTrain
    /\ agent' = agent + 1
    /\ call' = Idle
    /\ ret' = Idle
    /\ UNCHANGED <<pc, args, poolVars, opponent, global_step, steps, step, envVars, bufVars,
                   batchVars, acted, added>>

AdminNext == AdminWarmup \/ AdminStep \/ AdminTrain

SpecAdmin == AdminInit /\ [][AdminNext]_vars

----------------------------------------------------------------------------
(* Learning-rate annealing over the segments of a run: lines 356-362 *)

MaxTotal == 6
AnnealSteps == 2
\* --learning-rate 2.5e-4, in units of 1e-6
LearningRate == 250

\* a float as an exact fraction
Frac(n, d) == [num |-> n, den |-> d]

\* frac = 1.0 - (global_step - 1.0) / args.total_timesteps
frac(gs, total_timesteps) == Frac(total_timesteps - (gs - 1), total_timesteps)

\* lrnow = frac * args.learning_rate
lrnow(gs, total_timesteps, learning_rate) ==
    Frac(frac(gs, total_timesteps).num * learning_rate, frac(gs, total_timesteps).den)

AnnealInit ==
    /\ pc = "anneal"
    /\ args \in { [num_steps |-> n, total_timesteps |-> t, anneal_lr |-> a,
                   learning_rate |-> LearningRate] :
                    n \in 1 .. AnnealSteps, t \in 1 .. MaxTotal, a \in BOOLEAN }
    /\ Fresh
    /\ save_checkpoints = FALSE
    /\ HelpersIdle

\* one pass of the outer loop: the test of line 356, the rate written to the
\* optimizer (lines 358-362, or the rate of line 320 left as it is), and a
\* segment in which some cursor reaches num_steps and global_step grows by
\* sum(steps) (lines 364-430); the cursors are reset at lines 565-566
AnnealSegment ==
    /\ pc = "anneal"
    /\ global_step < args.total_timesteps
    /\ call' = [fn |-> "anneal", global_step |-> global_step]
    /\ ret' = [fn |-> "anneal",
               lr |-> IF args.anneal_lr
                      THEN lrnow(global_step, args.total_timesteps, args.learning_rate)
                      ELSE Frac(args.learning_rate, 1)]
    /\ \E n \in args.num_steps .. (NumEnvs * args.num_steps) : global_step' = global_step + n
    /\ UNCHANGED <<pc, args, poolVars, agent, opponent, steps, step, envVars, bufVars,
                   batchVars, acted, added>>

AnnealNext == AnnealSegment

SpecAnneal == AnnealInit /\ [][AnnealNext]_vars

----------------------------------------------------------------------------
(* Properties *)

Learners == {i \in Idx(NumEnvs) : train_ids[i]}

\* a rollout sub-step that ran to its end
SubStep == pc = "rollout" /\ pc' # "crashed"

\* C1: in every reachable state of the training loop, global_step equals the
\* number of (environment, sub-step) pairs in which the learning agent acted so
\* far; a sub-step in which only opponents act adds nothing.
C1_GlobalStepCountsDecisions == global_step = acted

\* the learning agent has acted three times in all: twice in environment 0, once in 1
C1_Witness == acted = 3 /\ global_step = 3 /\ steps[0] = 2 /\ steps[1] = 1

\* the params of the latest add_checkpoint call made with step s
LastAddedAt(s) ==
    LET calls == {q \in 1 .. Len(added) : added[q].step = s}
    IN  added[CHOOSE q \in calls : \A r \in calls : r <= q].params

\* C2: after any sequence of add_checkpoint calls, checkpoints and save_steps
\* both have length min(calls so far, window); save_steps holds the most
\* recently added steps in insertion order, and checkpoints[k] is the snapshot
\* taken at save_steps[k] (in memory: the parameters copied by that call; on
\* disk: the file named after that step, holding what was saved at that step).
C2_BoundedWindow ==
    LET n == Len(added)
        m == IF n < Window THEN n ELSE Window
    IN  /\ Len(checkpoints) = m
        /\ Len(save_steps) = m
        /\ \A k \in 1 .. m :
             /\ save_steps[k] = PyInt(added[n - m + k].step)
             /\ IF save_checkpoints
                THEN /\ checkpoints[k] = [path |-> added[n - m + k].step]
                     /\ checkpoints[k] \in DOMAIN files
                     /\ files[checkpoints[k]] = LastAddedAt(added[n - m + k].step)
                ELSE checkpoints[k] = added[n - m + k].params

\* more calls than the window holds: the oldest entry is gone
C2_Witness ==
    /\ pc = "pool"
    /\ Len(added) > Window
    /\ Len(checkpoints) = Window
    /\ checkpoints[1] # checkpoints[Window]
    /\ save_steps[1] # PyInt(added[1].step)

\* C3: after every environment step, for every environment i in which the
\* learning agent acted on that sub-step, the reward and done flag stored at row
\* steps[i] of column i are the ones the batch returned for environment i.
C3_RewardOfOwnEnvironment ==
    [][SubStep =>
         \A i \in Learners : /\ rewards'[steps[i]][i] = reward'[i]
                             /\ dones'[steps[i]][i] = done'[i]]_vars

\* C4: when an episode ends on the opponent's turn, the reward and done flag of
\* that environment are written at its cursor and at cursor - 1; when it ends on
\* the learning agent's own turn, at the cursor only, row cursor - 1 unchanged.
C4_BackAttribution ==
    [][SubStep =>
         \A i \in Idx(NumEnvs) :
            (done'[i] # 0 /\ steps[i] >= 1) =>
               /\ rewards'[steps[i]][i] = reward'[i]
               /\ dones'[steps[i]][i] = done'[i]
               /\ IF train_ids[i]
                  THEN /\ rewards'[steps[i] - 1][i] = rewards[steps[i] - 1][i]
                       /\ dones'[steps[i] - 1][i] = dones[steps[i] - 1][i]
                  ELSE /\ rewards'[steps[i] - 1][i] = reward'[i]
                       /\ dones'[steps[i] - 1][i] = done'[i]]_vars

\* C5: in the GAE backward pass, nextvalues is zero for environment i at row t
\* whenever row t+1 lies outside its valid prefix (t+1 >= steps[i]).
C5_NoBootstrapBeyondPrefix ==
    pc = "update" =>
        \A t \in 0 .. (args.num_steps - 3) : \A i \in Idx(NumEnvs) :
            (t + 1 >= steps[i]) => nextvalues(values, steps, t)[i] = 0

\* C6: for every filter, the merged actions have len(filter) rows and row i is
\* the action derived from environment i's own observation and mask, picked by
\* the learning agent iff filter[i] and by the opponent otherwise.
C6_MergeRestoresOrder ==
    ret.fn = "act" =>
        /\ ~ret.raised
        /\ DOMAIN ret.action_ = DOMAIN call.filter
        /\ \A i \in DOMAIN call.filter :
             ret.action_[i] = policy(IF call.filter[i] THEN LearningAgent ELSE Opponent,
                                     call.next_obs[i], call.next_masks[i])

\* an opponent row comes before a learning-agent row with another observation
C6_Witness ==
    /\ ret.fn = "act"
    /\ \E i, j \in DOMAIN call.filter :
         /\ j < i /\ call.filter[i] /\ ~call.filter[j]
         /\ call.next_obs[i] # call.next_obs[j]

\* the number of filter-true environments before environment i
Rank(filter, i) == Cardinality({m \in DOMAIN filter : filter[m] /\ m < i})

\* C7: insert_at_indices writes values[k] to buffer[cursors[i], i] for the k-th
\* filter-true environment i, leaves every other cell unchanged, and with empty
\* values changes nothing and raises no error.
C7_ScatterWrite ==
    (ret.fn = "insert_at_indices"
       /\ (len(call.vals) = 0 \/ len(call.vals) >= Cardinality(Trues(call.indices)))) =>
        /\ ~ret.raised
        /\ \A t \in DOMAIN call.buffer : \A i \in DOMAIN call.indices :
             ret.buffer[t][i] =
                IF len(call.vals) > 0 /\ call.indices[i] /\ t = Row(call.cursors[i], call.buffer)
                THEN call.vals[Rank(call.indices, i)]
                ELSE call.buffer[t][i]

\* filter = [true, false, true] and two values
C7_Witness ==
    /\ ret.fn = "insert_at_indices"
    /\ call.indices[0] /\ ~call.indices[1] /\ call.indices[2]
    /\ len(call.vals) = 2
    /\ call.cursors[0] # call.cursors[2]
    /\ ret.buffer # call.buffer

\* C8: the flattened batch has length sum(steps); environment i's block starts
\* at steps[0] + ... + steps[i-1] and holds rows [0, steps[i]) of its column.
C8_Flattening ==
    ret.fn = "flatten" =>
        /\ DOMAIN ret.b = Idx(sum(call.steps))
        /\ \A i \in DOMAIN call.steps : \A t \in Idx(call.steps[i]) :
             ret.b[SumTo(call.steps, i) + t] = call.buffer[t][i]

\* steps = [3, 5, 0]: length 8
C8_Witness ==
    /\ ret.fn = "flatten"
    /\ call.steps[0] = 3 /\ call.steps[1] = 5 /\ call.steps[2] = 0
    /\ len(ret.b) = 8
    /\ ret.b[3] = call.buffer[0][1]

\* C9: the evaluation harness runs on a sub-step exactly when global_step mod
\* eval_freq is strictly less than the number of learning-agent decisions made
\* in that sub-step.
C9_EvalOnCrossing ==
    [][SubStep =>
         ((pc' = "eval") <=> ((global_step' % EvalFreq) < Cardinality(Learners)))]_vars

\* C10: in disk mode, after at least one add_checkpoint, sample_opponent
\* completes without error and returns the agent loaded from the file stored at
\* the selected pool index.
C10_DiskSampleLoads ==
    (ret.fn = "sample_opponent" /\ save_checkpoints /\ Len(checkpoints) >= 1) =>
        /\ ~ret.raised
        /\ ret.agent = files[checkpoints[call.checkpoint_id + 1]]

\* C11: on a non-empty pool sample_opponent selects an index in [0, len-1]; the
\* step it reports is the save step stored at that index; what it returns is the
\* entry at that index, one of the last min(calls, window) snapshots added and
\* the one taken at the reported step; in memory mode it always returns.
C11_SampleWithinPool ==
    (ret.fn = "sample_opponent" /\ Len(checkpoints) >= 1) =>
        LET id == call.checkpoint_id
            n == Len(added)
        IN  /\ id \in 0 .. (Len(checkpoints) - 1)
            /\ ret.printed = save_steps[id + 1]
            /\ ~save_checkpoints => ~ret.raised
            /\ ~ret.raised =>
                  /\ ret.agent = checkpoints[id + 1]
                  /\ \E q \in (n - Len(checkpoints) + 1) .. n :
                        /\ added[q].params = ret.agent
                        /\ PyInt(added[q].step) = ret.printed

\* the oldest surviving entry is drawn after an eviction
C11_Witness ==
    /\ ret.fn = "sample_opponent"
    /\ ~ret.raised
    /\ Len(added) > Window
    /\ call.checkpoint_id = 0
    /\ ret.agent # checkpoints[Len(checkpoints)]

\* a step of the orchestrator that calls sample_opponent: the warmup, and every
\* rollout sub-step on which the replace trigger of line 389 fires
Samples == pc = "warmup" \/ (pc = "rollout" /\ crossed(global_step', ReplaceFreq, train_ids))

\* C12: every call to sample_opponent made by the orchestrator finds at least
\* one entry in the pool, and a pool that holds an entry never becomes empty.
C12_SampleFromSeededPool ==
    [][/\ Samples => Len(checkpoints') >= 1
       /\ Len(checkpoints) >= 1 => Len(checkpoints') >= 1]_vars

\* the replace trigger has fired on a pool that has grown past the step-0 snapshot
C12_Witness ==
    /\ pc \in {"rollout", "eval", "update"}
    /\ global_step >= ReplaceFreq
    /\ Len(checkpoints) >= 2

\* C13: for every seed supplied (0 included), two assistants built with that
\* seed and driven by the same calls select the same sequence of pool indices,
\* whatever the process-wide generator yields.
C13_SeedDecidesSampling ==
    (ret.fn = "pair" /\ call.seed.type = "int") => ret.a.ids = ret.b.ids

\* C14: the phases follow WARMUP -> ROLLOUT -> UPDATE -> ROLLOUT -> ... ->
\* SHUTDOWN. The total_timesteps test is made between segments only; a segment
\* starts with all cursors at 0 and runs until max(steps) >= num_steps; it is
\* followed by one update, after which the test is made again; SHUTDOWN is
\* entered from that test only, with global_step >= total_timesteps; the
\* buffers are written by rollout sub-steps only and the learning agent is
\* trained by the update only.
C14_PhaseOrder ==
    [][/\ pc = "warmup" => pc' \in {"segment", "crashed"}
       /\ pc = "segment" =>
             /\ \A i \in Idx(NumEnvs) : steps[i] = 0
             /\ pc' = (IF global_step >= args.total_timesteps THEN "shutdown" ELSE "rollout")
       /\ pc = "rollout" =>
             \/ pc' = "eval"
             \/ pc' = (IF max(steps') >= args.num_steps THEN "update" ELSE "rollout")
       /\ pc = "eval" =>
             /\ steps' = steps
             /\ pc' = (IF max(steps) >= args.num_steps THEN "update" ELSE "rollout")
       /\ pc = "update" => pc' = "segment"
       /\ pc = "shutdown" => pc' = "done"
       /\ pc \in {"done", "crashed"} => pc' = pc
       /\ bufVars' # bufVars => pc = "rollout"
       /\ agent' # agent => pc = "update"]_vars

\* a run of two segments, each followed by its update, that has shut down
C14_Witness ==
    /\ pc = "done"
    /\ agent >= 2
    /\ global_step >= args.total_timesteps

\* C15: no pool entry and no fielded opponent shares parameters with the
\* learning agent: a PPO update leaves the parameters held by every pool entry
\* (in memory or on disk) and by the fielded opponent as they were, and the
\* learning agent's parameters change during the update only.
C15_SnapshotsAreDetached ==
    [][/\ agent' # agent => pc = "update"
       /\ pc = "update" =>
             /\ parameters(opponent', agent') = parameters(opponent, agent)
             /\ Len(checkpoints') = Len(checkpoints)
             /\ IF save_checkpoints
                THEN files' = files /\ checkpoints' = checkpoints
                ELSE \A k \in DOMAIN checkpoints :
                        parameters(checkpoints'[k], agent') = parameters(checkpoints[k], agent)]_vars

\* an update has run while the pool held the step-0 snapshot and a later one,
\* and the fielded opponent still plays with parameters older than the agent's
C15_Witness ==
    /\ pc = "segment"
    /\ agent >= 1
    /\ ~save_checkpoints
    /\ Len(checkpoints) >= 2
    /\ checkpoints[1] = 0
    /\ opponent = 0

\* C16: a call to evaluate leaves the training state unchanged: global_step,
\* the cursors, the trajectory buffers, the training environments' pending
\* turn-ownership and last reward/done batch, the learning agent's parameters,
\* the fielded opponent and the pool.
C16_EvaluateKeepsTrainingState ==
    [][pc = "eval" =>
         /\ global_step' = global_step
         /\ steps' = steps /\ step' = step
         /\ rewards' = rewards /\ dones' = dones /\ values' = values
         /\ obs' = obs /\ masks' = masks /\ actions' = actions /\ logprobs' = logprobs
         /\ train_ids' = train_ids /\ reward' = reward /\ done' = done
         /\ agent' = agent
         /\ opponent' = opponent
         /\ checkpoints' = checkpoints /\ save_steps' = save_steps /\ files' = files]_vars

\* an evaluation is due in the middle of a segment, with a decision pending
\* and a finished episode in the buffers
C16_Witness ==
    /\ pc = "eval"
    /\ global_step >= 1
    /\ 0 < step /\ step < args.num_steps
    /\ \E i \in Idx(NumEnvs) : train_ids[i]
    /\ \E i \in Idx(NumEnvs) : dones[0][i] = 1

\* C17: when a rollout segment ends, every cursor satisfies
\* 1 <= steps[i] <= num_steps.
C17_CursorsAtSegmentEnd ==
    pc = "update" => \A i \in Idx(NumEnvs) : 1 <= steps[i] /\ steps[i] <= args.num_steps

\* C17, amended: when a rollout segment ends, every cursor satisfies
\* 0 <= steps[i] <= num_steps and at least one cursor equals num_steps.
C17_CursorsAtSegmentEndAmended ==
    pc = "update" =>
        /\ \A i \in Idx(NumEnvs) : 0 <= steps[i] /\ steps[i] <= args.num_steps
        /\ \E i \in Idx(NumEnvs) : steps[i] = args.num_steps

\* a segment ends with one environment full and the other never played by the agent
C17_Witness ==
    /\ pc = "update"
    /\ steps[0] = args.num_steps
    /\ steps[1] = 0

ceil(n, d) == (n + d - 1) \div d

\* C18: with no target-KL threshold the optimization phase performs exactly
\* update_epochs x ceil(n_transitions / minibatch_size) gradient steps, and every
\* transition index is used exactly once per epoch: after k whole epochs, k x
\* ceil(...) steps and k uses of every index; inside an epoch no index twice.
C18_GradientSteps ==
    ret.fn = "optimize" =>
        LET per_epoch == ceil(call.n_transitions, call.minibatch_size) IN
        /\ ret.at \in {"epoch", "done"} =>
              /\ ret.grad_steps = ret.epoch * per_epoch
              /\ \A i \in Idx(call.n_transitions) : ret.uses[i] = ret.epoch
        /\ ret.at = "minibatch" =>
              \A i \in Idx(call.n_transitions) : ret.uses[i] \in {ret.epoch, ret.epoch + 1}
        /\ ret.at = "done" =>
              /\ ret.epoch = call.update_epochs
              /\ ret.grad_steps = call.update_epochs * per_epoch

\* three transitions in minibatches of two, two epochs: four gradient steps
C18_Witness ==
    /\ ret.fn = "optimize"
    /\ ret.at = "done"
    /\ call.n_transitions = 3 /\ call.minibatch_size = 2 /\ call.update_epochs = 2
    /\ ret.grad_steps = 4

\* the seats of l held by name
SeatsOf(l, name) == {k \in 1 .. Len(l) : l[k] = name}

\* C19: the seat list built by the thunk of make_env has exactly n_players
\* entries: one "python" seat and n_players-1 seats of the named opponent; the
\* "python" seat is the first one unless randomise_order, and with
\* randomise_order the list is a permutation of that same list.
C19_SeatList ==
    ret.fn = "make_env" =>
        /\ Len(ret.agent_ids) = call.n_players
        /\ Cardinality(SeatsOf(ret.agent_ids, "python")) = 1
        /\ Cardinality(SeatsOf(ret.agent_ids, call.opponent)) = call.n_players - 1
        /\ ~call.randomise_order => ret.agent_ids[1] = "python"

\* three players, shuffled: the "python" seat comes last
C19_Witness ==
    /\ ret.fn = "make_env"
    /\ call.randomise_order
    /\ call.n_players = 3
    /\ ret.agent_ids[3] = "python"

\* row t of environment i's column holds what a decision of the learning agent
\* in environment i writes while the agent holds its present parameters, which
\* it does for one segment
WrittenThisSegment(t, i) ==
    /\ values[t][i] = value_of(agent, i)
    /\ actions[t][i] = action_of(agent, i)
    /\ logprobs[t][i] = logprob_of(agent, i)
    /\ obs[t][i] = obs_of(i)
    /\ masks[t][i] = mask_of(i)

\* row t of environment i's column in the five buffers
Cells(t, i) == <<obs[t][i], values[t][i], actions[t][i], logprobs[t][i], masks[t][i]>>

\* C20: within a segment steps[i] grows by one on each sub-step in which the
\* learning agent acted in environment i and is unchanged on every other; so
\* every row t < steps[i] of environment i's column of obs, values, actions,
\* logprobs and masks was written during the current segment by a decision of
\* the learning agent in environment i: the sub-step writes row steps[i] and
\* leaves the rows below it as they are.
C20_DenseRows ==
    /\ [](pc \in {"rollout", "eval", "update"} =>
            \A i \in Idx(NumEnvs) : \A t \in Idx(steps[i]) : WrittenThisSegment(t, i))
    /\ [][SubStep =>
            \A i \in Idx(NumEnvs) :
               /\ steps'[i] = steps[i] + (IF train_ids[i] THEN 1 ELSE 0)
               /\ \A t \in Idx(steps[i]) : Cells(t, i)' = Cells(t, i)]_vars

\* in the second segment the agent has acted twice in environment 0 and once in 1
C20_Witness ==
    /\ pc \in {"rollout", "eval", "update"}
    /\ agent = 1
    /\ steps[0] = 2
    /\ steps[1] = 1

\* the last two rows of a buffer of the advantage pass
LastTwoRows == {len(call.values) - 2, len(call.values) - 1}

MultipleIn(g, c, freq) == \E k \in (g + 1) .. (g + c) : k % freq = 0

\* the snapshots the pool holds in memory mode
Pooled(cps) == {cps[k] : k \in DOMAIN cps}

\* C22: on a rollout sub-step in which the learning agent made c decisions
\* (global_step going from g to g+c), a checkpoint is added if and only if c > 0
\* and a multiple of checkpoint_freq lies in (g, g+c], and the opponent is
\* resampled if and only if c > 0 and a multiple of replace_freq lies in
\* (g, g+c]; at most one checkpoint and one resample per sub-step, none when
\* c = 0. A resample shows as the fielded opponent being drawn from the pool,
\* or as the failure of sample_opponent.
C22_TriggersOnCrossing ==
    [][pc = "rollout" =>
         LET c == Cardinality(Learners)
             g == global_step
             ckpt == c > 0 /\ MultipleIn(g, c, CheckpointFreq)
             repl == c > 0 /\ MultipleIn(g, c, ReplaceFreq)
         IN  /\ global_step' = g + c
             /\ ckpt => added' = Append(added, [step |-> g + c, params |-> agent])
             /\ ~ckpt => added' = added
             /\ repl => (pc' = "crashed" \/ opponent' \in Pooled(checkpoints'))
             /\ ~repl => (pc' # "crashed" /\ opponent' = opponent)]_vars

\* a sub-step with two decisions took global_step from 1 to 3: the multiple 2 of
\* checkpoint_freq and the multiple 3 of replace_freq were both passed, the
\* snapshot was added with step 3 and the opponent was drawn again
C22_Witness ==
    /\ pc \in {"rollout", "eval", "update"}
    /\ ~save_checkpoints
    /\ global_step = 3
    /\ acted = 3
    /\ Len(added) = 2
    /\ added[2].step = 3
    /\ opponent = 0

\* C23: when the checkpoint trigger and the replace trigger fire on the same
\* sub-step, the live agent's snapshot is added before the opponent is drawn:
\* the snapshot taken at the current global_step is the newest pool entry, the
\* draw is over the pool that holds it, and the opponent fielded afterwards is
\* the entry of that pool at the drawn index (so it can be the new snapshot);
\* the opponent actions stepped on this sub-step were computed by the opponent
\* fielded before it.
C23_AddBeforeResample ==
    (ret.fn = "substep" /\ ret.added /\ ret.sampled) =>
        /\ save_steps[Len(save_steps)] = PyInt(global_step)
        /\ added[Len(added)] = [step |-> global_step, params |-> call.agent]
        /\ ~ret.raised =>
              /\ checkpoints[Len(checkpoints)] = call.agent
              /\ ret.checkpoint_id \in 0 .. (Len(checkpoints) - 1)
              /\ opponent = checkpoints[ret.checkpoint_id + 1]
        /\ \A i \in Idx(NumEnvs) :
              ~call.train_ids[i] =>
                  ret.action_[i] = policy(call.opponent, obs_of(i), mask_of(i))

\* both triggers fired on a sub-step in which the opponent acted in environment 0:
\* the new snapshot, trained since the old opponent was taken, is fielded
C23_Witness ==
    /\ ret.fn = "substep" /\ ret.added /\ ret.sampled /\ ~ret.raised
    /\ ~call.train_ids[0]
    /\ call.train_ids[1]
    /\ ret.checkpoint_id = Len(checkpoints) - 1
    /\ opponent = call.agent
    /\ call.opponent # opponent
    /\ ret.action_[0].by = call.opponent

\* the cells of environment i at row r in the buffers envs.step feeds
Fed(r, i) == <<rewards[r][i], dones[r][i]>>

\* C24: every write of a sub-step into a trajectory buffer for environment i
\* targets a row r with 0 <= r <= steps[i] and r < num_steps: the row written
\* at the cursor and the row written at cursor - 1 by the back-attribution are
\* in that range, and no cell of any other row changes; the back-attribution
\* never addresses row -1, the last row of the buffer, when steps[i] = 0.
C24_WritesWithinPrefix ==
    [][SubStep =>
         \A i \in Idx(NumEnvs) :
            /\ train_ids[i] => steps[i] < args.num_steps
            /\ (done'[i] # 0 /\ ~train_ids[i]) => steps[i] - 1 >= 0
            /\ \A r \in Idx(args.num_steps) :
                  r > steps[i] =>
                     /\ Cells(r, i)' = Cells(r, i)
                     /\ Fed(r, i)' = Fed(r, i)]_vars

\* a buffer with the rows at and above each cursor as storage setup left them
\* (lines 330-339): what the buffer would hold had no earlier segment run
ValidPrefix(buffer) ==
    [t \in DOMAIN buffer |-> [i \in DOMAIN buffer[t] |->
                                 IF t < steps[i] THEN buffer[t][i] ELSE 0]]

\* C25: the advantages and returns placed in the flattened batch of a segment
\* are determined only by the rewards, dones and values in rows t < steps[i]:
\* what earlier segments left in rows >= steps[i] never influences them, so
\* the batch is the one the same rows give on buffers that are zero elsewhere.
C25_BatchFromValidRows ==
    [][pc = "update" =>
         LET adv == gae(ValidPrefix(rewards), ValidPrefix(dones), ValidPrefix(values), steps)
         IN  /\ b_advantages' = flatten(adv, steps)
             /\ b_returns' = flatten(plus(adv, ValidPrefix(values)), steps)]_vars

\* every rollout segment that starts gets to its update: the learning agent is
\* given the turn often enough, and every evaluation run finishes
SegmentsFill == (pc \in {"rollout", "eval"}) ~> (pc = "update")

\* C26: if in every rollout segment the learning agent is given the turn often
\* enough for some environment to reach num_steps decisions, and every
\* evaluation run finishes, the run eventually reaches the shutdown with
\* global_step >= total_timesteps; global_step grows with sum(steps) through a
\* segment, from sum(steps) = 0 to sum(steps) >= num_steps at its update.
C26_ReachesShutdown ==
    /\ [](pc = "segment" => sum(steps) = 0)
    /\ [](pc = "update" => sum(steps) >= args.num_steps)
    /\ [][(pc = "rollout" /\ pc' # "crashed") =>
             global_step' - global_step = sum(steps') - sum(steps)]_vars
    /\ [][(pc \in {"segment", "eval", "update"}) => (global_step' = global_step)]_vars
    /\ SegmentsFill =>
          <>(pc \in {"shutdown", "done"} /\ global_step >= args.total_timesteps)

\* C27: with annealing enabled, the learning rate applied at the start of a
\* segment is (1 - (global_step - 1)/total_timesteps) x base_learning_rate and
\* lies in (0, base_learning_rate], in every segment of the run, the first one
\* (global_step = 0) included.
C27_LearningRateInRange ==
    (ret.fn = "anneal" /\ args.anneal_lr) =>
        /\ ret.lr.den > 0
        /\ ret.lr.num * args.total_timesteps =
              (args.total_timesteps - (call.global_step - 1)) * args.learning_rate * ret.lr.den
        /\ 0 < ret.lr.num
        /\ ret.lr.num <= args.learning_rate * ret.lr.den

=============================================================================
